---- MODULE Spec2Model ----
(***************************************************************************)
(* State-machine model of the SolarSystem component                        *)
(* (src/src/components/SolarSystem.tsx, the revision starting at line 274):*)
(* the coordinate fetch, the scene effect that rebuilds the three.js scene,*)
(* the per-frame animate loop with its distance ranking, and the camera    *)
(* flights started by focusOnPlanet.                                       *)
(*                                                                         *)
(* Lengths are held in fixed point: Resolution steps per scene unit.       *)
(* Times are milliseconds, as Date.now() reports them.  Distances in AU    *)
(* are held in hundredths (the two decimals toFixed(2) keeps).             *)
(***************************************************************************)
EXTENDS Integers, Sequences, FiniteSets, TLC

(***************************************************************************)
(* Bounds of the model                                                     *)
(***************************************************************************)
Resolution == 8
MaxClock == 1500
MaxRequests == 3
MaxFocus == 2
\* steps per unit of a normalized device coordinate
NdcScale == 4

(***************************************************************************)
(* Program constants                                                       *)
(***************************************************************************)
SCALE_FACTOR == 10
SIZE_SCALE_MILLI == 500
duration == 1000
\* (Math.PI / 2) + (23 * Math.PI / 180), in tenths of a degree; a quarter
\* turn, Math.PI / 2, in the same unit
ORBIT_INCLINATION == 1130
QuarterTurn == 900

\* null, as a string state holds it and as an object state holds it
Null == "null"
NullObject == [null |-> TRUE]

\* PLANETS, in declaration order; size in thousandths of an Earth radius,
\* inclination in tenths of a degree.
PLANETS ==
  << [id |-> "sun",     name |-> "Sun",     size |-> 2180,  inclination |-> 0],
     [id |-> "mercury", name |-> "Mercury", size |-> 383,   inclination |-> 70],
     [id |-> "venus",   name |-> "Venus",   size |-> 949,   inclination |-> 34],
     [id |-> "earth",   name |-> "Earth",   size |-> 1000,  inclination |-> 0],
     [id |-> "mars",    name |-> "Mars",    size |-> 532,   inclination |-> 19],
     [id |-> "jupiter", name |-> "Jupiter", size |-> 11209, inclination |-> 13],
     [id |-> "saturn",  name |-> "Saturn",  size |-> 9449,  inclination |-> 25],
     [id |-> "uranus",  name |-> "Uranus",  size |-> 4007,  inclination |-> 8],
     [id |-> "neptune", name |-> "Neptune", size |-> 3883,  inclination |-> 18] >>

PlanetIds == {PLANETS[i].id : i \in DOMAIN PLANETS}

(***************************************************************************)
(* Numbers.  A coordinate read from the response is whatever the JSON      *)
(* holds: coords.x of an entry without a numeric x multiplies to NaN.  NaN *)
(* is held as a value that no arithmetic of the model produces, and every  *)
(* operation on Numbers goes through the operators below, which propagate  *)
(* it as IEEE 754 does.                                                    *)
(***************************************************************************)
NaN == 2147483647

IsNaN(a) == a = NaN

Plus(a, b) == IF IsNaN(a) \/ IsNaN(b) THEN NaN ELSE a + b

Minus(a, b) == IF IsNaN(a) \/ IsNaN(b) THEN NaN ELSE a - b

Times(a, b) == IF IsNaN(a) \/ IsNaN(b) THEN NaN ELSE a * b

\* a * n / d for a fraction n/d, rounded down to the grid
Scaled(a, n, d) == IF IsNaN(a) THEN NaN ELSE (a * n) \div d

\* a < b and a <= b: false as soon as either side is NaN
Less(a, b) == ~IsNaN(a) /\ ~IsNaN(b) /\ a < b

LessEq(a, b) == ~IsNaN(a) /\ ~IsNaN(b) /\ a <= b

(***************************************************************************)
(* Vectors (THREE.Vector3) in fixed point                                  *)
(***************************************************************************)
Vec(x, y, z) == <<x, y, z>>

Fix(v) ==
  <<Times(v[1], Resolution), Times(v[2], Resolution), Times(v[3], Resolution)>>

VAdd(a, b) == <<Plus(a[1], b[1]), Plus(a[2], b[2]), Plus(a[3], b[3])>>

\* Vector3.lerpVectors(v1, v2, alpha) with alpha = e[1] / e[2]
lerpVectors(v1, v2, e) ==
  <<Plus(v1[1], Scaled(Minus(v2[1], v1[1]), e[1], e[2])),
    Plus(v1[2], Scaled(Minus(v2[2], v1[2]), e[1], e[2])),
    Plus(v1[3], Scaled(Minus(v2[3], v1[3]), e[1], e[2]))>>

IsFinite(v) == ~IsNaN(v[1]) /\ ~IsNaN(v[2]) /\ ~IsNaN(v[3])

RECURSIVE SqrtSearch(_, _, _)
SqrtSearch(n, lo, hi) ==
  IF hi - lo <= 1 THEN lo
  ELSE LET mid == (lo + hi) \div 2
       IN IF mid * mid <= n THEN SqrtSearch(n, mid, hi)
                            ELSE SqrtSearch(n, lo, mid)

\* floor of the square root
ISqrt(n) == SqrtSearch(n, 0, IF n + 1 < 46341 THEN n + 1 ELSE 46341)

\* squared length of a - b
DistSq(a, b) ==
  IF IsFinite(a) /\ IsFinite(b)
  THEN (a[1] - b[1]) * (a[1] - b[1]) + (a[2] - b[2]) * (a[2] - b[2])
         + (a[3] - b[3]) * (a[3] - b[3])
  ELSE NaN

(***************************************************************************)
(* The coordinate feed: the server's answer for a timestamp.  Coordinates  *)
(* are whole AU.  The second set is partial, places the sun off origin,    *)
(* holds an entry without a numeric x (saturn) and an entry for a body     *)
(* that PLANETS does not list (pluto).                                     *)
(***************************************************************************)
Timestamps == {"T1", "T2"}

DataFor(ts) ==
  IF ts = "T1"
  THEN [sun     |-> Vec(0, 0, 0),  mercury |-> Vec(0, 0, 1),
        venus   |-> Vec(1, 0, 0),  earth   |-> Vec(0, 1, 0),
        mars    |-> Vec(2, 2, 2),  jupiter |-> Vec(5, 0, 0),
        saturn  |-> Vec(0, 0, -4), uranus  |-> Vec(-3, 0, 0),
        neptune |-> Vec(3, 3, 3)]
  ELSE [sun     |-> Vec(1, 0, 0),  venus   |-> Vec(0, -1, 0),
        earth   |-> Vec(-1, 0, 0), mars    |-> Vec(0, 0, 2),
        jupiter |-> Vec(4, 0, 3),  saturn  |-> Vec(NaN, 0, -4),
        pluto   |-> Vec(2, 0, 0)]

\* a body the user can click, a place the user can drag the cube to, a view
\* the user can orbit the camera to, and the steps the wall clock can take
FocusIds == {"earth", "neptune"}
\* every id focusOnPlanet is called with here: a label's id (the sun's too),
\* or a string that is no id of PLANETS
FocusArgs == FocusIds \cup {"sun", "pluto"}
CubePlaces == {Vec(0, 0, 0), Vec(2, 3, -105)}
OrbitViews == {Vec(0, 0, 50)}
ClockSteps == {-500, 500}

\* projected vectors (x, y in steps of 1 / NdcScale; on screen, on its edge
\* and off it) and window sizes (innerWidth, innerHeight) for the pixel
\* arithmetic of animate
Vectors ==
  LET Steps == {-NdcScale - 2, -NdcScale, -1, 0, 1, NdcScale}
  IN {<<x, y>> : x \in Steps, y \in Steps}
Windows == {<<800, 600>>, <<1024, 768>>, <<375, 667>>}

VARIABLES
  now,            \* the reading Date.now() gives
  timestamp,      \* useState timestamp
  issued,         \* number of coordinate requests issued so far
  inflight,       \* requests awaiting their response: [seq, ts]
  planetData,     \* useState planetData: Null or [ts, data]
  cameraState,    \* useState cameraState: Null or [position, target]
  loading,        \* useState loading
  error,          \* useState error: Null or the message
  focusedPlanet,  \* useState focusedPlanet
  distances,      \* useState distances: the published ranked list
  planetPositions,\* useState planetPositions: the published label positions
  controlsRef,    \* controlsRef.current: index of the scene whose controls it holds
  cameras,        \* scene index -> its camera [position, target], for the
                  \* scenes still referenced (current, or held by a flight)
  meshPos,        \* mesh.position of every body in the current scene
  rotationX,      \* rotation.x of every body's mesh and of its orbit ring
  cubePos,        \* draggableCube.position in the current scene
  flights,        \* the animateCamera closures created so far, in order
  queue,          \* callbacks requestAnimationFrame holds for the next frame
  running,        \* callbacks of the current frame not yet run
  projection,     \* one run of animate's pixel arithmetic: the projected
                  \* vector, the window's size, and the position computed
  unmounted       \* React has unmounted the component

vars == <<now, timestamp, issued, inflight, planetData, cameraState, loading,
          error, focusedPlanet, distances, planetPositions, controlsRef,
          cameras, meshPos, rotationX, cubePos, flights, queue, running,
          projection, unmounted>>


(***************************************************************************)
(* Scene construction (the scene effect)                                   *)
(***************************************************************************)
\* a default with y and z exchanged
DefaultCameraSwapped ==
  [position |-> Fix(Vec(0, 100, 50)), target |-> Fix(Vec(0, 0, 0))]

\* camera.position y = 50, z = 100, lookAt(0, 0, 0); OrbitControls' target
\* starts at the origin
DefaultCamera ==
  [position |-> Fix(Vec(0, 50, 100)), target |-> Fix(Vec(0, 0, 0))]

\* the camera of a new scene: the snapshot if there is one, else the default
RestoreCamera(cs) ==
  IF cs # NullObject THEN [position |-> cs.position, target |-> cs.target]
  ELSE DefaultCamera

\* mesh.position of a planet: coords * SCALE_FACTOR, or the fallback (10,0,0)
PlanetPosition(pd, id) ==
  IF pd # NullObject /\ id \in DOMAIN pd.data
  THEN Fix(Vec(Times(pd.data[id][1], SCALE_FACTOR),
               Times(pd.data[id][2], SCALE_FACTOR),
               Times(pd.data[id][3], SCALE_FACTOR)))
  ELSE Fix(Vec(10, 0, 0))

\* the sun mesh is created apart from the others and is never positioned
MeshPositions(pd) ==
  [id \in PlanetIds |->
     IF id = PLANETS[1].id THEN Fix(Vec(0, 0, 0)) ELSE PlanetPosition(pd, id)]

CubeStart == Fix(Vec(20, 20, 20))

\* rotation.x of a planet's mesh and of its orbit ring (a ring is made only
\* for a planet with a coordinate): totalInclination, and Math.PI / 2 more
\* for the ring.  A mesh whose rotation is never set keeps rotation.x = 0.
PlanetRotation(pd, i) ==
  IF pd # NullObject /\ PLANETS[i].id \in DOMAIN pd.data
  THEN LET totalInclination == ORBIT_INCLINATION + PLANETS[i].inclination
       IN [mesh |-> totalInclination,
           orbit |-> <<QuarterTurn + totalInclination>>]
  ELSE [mesh |-> 0, orbit |-> <<>>]

\* the sun's mesh is not rotated about x and has no ring
MeshRotations(pd) ==
  [id \in PlanetIds |->
     IF id = PLANETS[1].id THEN [mesh |-> 0, orbit |-> <<>>]
     ELSE PlanetRotation(pd, CHOOSE i \in DOMAIN PLANETS : PLANETS[i].id = id)]

(***************************************************************************)
(* Distance ranking (animate)                                              *)
(***************************************************************************)
\* the distance cut to two decimals instead of rounded
DistanceTruncated(cube, mesh) ==
  LET k == 100 \div SCALE_FACTOR
  IN IF IsNaN(DistSq(cube, mesh)) THEN NaN
     ELSE ISqrt(k * k * DistSq(cube, mesh)) \div Resolution

\* Number((distance / SCALE_FACTOR).toFixed(2)), in hundredths of an AU,
\* where distance = cube.distanceTo(mesh) in scene units
DistanceAU(cube, mesh) ==
  LET k == 100 \div SCALE_FACTOR  \* hundredths of an AU per scene unit
  IN IF IsNaN(DistSq(cube, mesh)) THEN NaN
     ELSE (ISqrt(4 * k * k * DistSq(cube, mesh)) + Resolution)
            \div (2 * Resolution)

\* the comparator (a, b) => a.distance - b.distance
CompareDistance(a, b) == Minus(a.distance, b.distance)

\* Array.prototype.sort is stable, and takes a NaN from the comparator as 0:
\* x goes behind every entry it does not precede
RECURSIVE InsertSorted(_, _)
InsertSorted(list, x) ==
  IF list = <<>> THEN <<x>>
  ELSE IF Less(CompareDistance(x, Head(list)), 0) THEN <<x>> \o list
       ELSE <<Head(list)>> \o InsertSorted(Tail(list), x)

RECURSIVE SortDistances(_)
SortDistances(list) ==
  IF list = <<>> THEN <<>>
  ELSE InsertSorted(SortDistances(SubSeq(list, 1, Len(list) - 1)),
                    list[Len(list)])

\* The label position animate computes for a mesh: vector.project(camera)
\* and the pixel arithmetic on it are functions of the mesh's position and
\* of the camera; the position is held as the arguments it was computed from.
LabelPosition(mesh, camera) ==
  [point |-> mesh, position |-> camera.position, target |-> camera.target]

\* newDistances before the sort: one entry per PLANETS element, in order
NewDistances(cube, mesh, camera) ==
  [i \in DOMAIN PLANETS |->
     [id |-> PLANETS[i].id, name |-> PLANETS[i].name,
      distance |-> DistanceAU(cube, mesh[PLANETS[i].id]),
      position |-> LabelPosition(mesh[PLANETS[i].id], camera)]]

\* the same sort done by merging, as other engines do it
RECURSIVE Merge(_, _)
Merge(left, right) ==
  IF left = <<>> THEN right
  ELSE IF right = <<>> THEN left
  ELSE IF Less(CompareDistance(Head(right), Head(left)), 0)
       THEN <<Head(right)>> \o Merge(left, Tail(right))
       ELSE <<Head(left)>> \o Merge(Tail(left), right)

RECURSIVE MergeSortDistances(_)
MergeSortDistances(list) ==
  IF Len(list) <= 1 THEN list
  ELSE LET mid == Len(list) \div 2
       IN Merge(MergeSortDistances(SubSeq(list, 1, mid)),
                MergeSortDistances(SubSeq(list, mid + 1, Len(list))))

RankedDistances(cube, mesh, camera) ==
  SortDistances(NewDistances(cube, mesh, camera))

\* What newDistances.sort can leave.  With finite distances the comparator
\* is consistent and every engine gives the one stable order.  With a NaN
\* distance it is not, and the order is implementation-defined: the lists
\* that insertion and merging give are both possible.
RankedOutcomes(cube, mesh, camera) ==
  IF \A id \in PlanetIds : ~IsNaN(DistanceAU(cube, mesh[id]))
  THEN {RankedDistances(cube, mesh, camera)}
  ELSE {RankedDistances(cube, mesh, camera),
        MergeSortDistances(NewDistances(cube, mesh, camera))}

\* a map that would give every body the position of the nearest one
NearestPlanetPositions(newDistances) ==
  [id \in {newDistances[i].id : i \in DOMAIN newDistances} |->
     newDistances[1].position]

\* newPlanetPositions: the position of every entry of the sorted list, under
\* the entry's id
NewPlanetPositions(newDistances) ==
  [id \in {newDistances[i].id : i \in DOMAIN newDistances} |->
     newDistances[CHOOSE i \in DOMAIN newDistances :
                    newDistances[i].id = id].position]

(***************************************************************************)
(* Camera flights (focusOnPlanet / animateCamera)                          *)
(***************************************************************************)
RECURSIVE GCD(_, _)
GCD(a, b) == IF b = 0 THEN a ELSE GCD(b, a % b)

Abs(x) == IF x < 0 THEN -x ELSE x

\* a fraction n/d in lowest terms, d > 0
Fraction(n, d) ==
  LET g == GCD(Abs(n), d) IN <<n \div g, d \div g>>

\* Math.min(elapsed / duration, 1)
ProgressUnclamped(elapsed) == Fraction(elapsed, duration)
Progress(elapsed) ==
  IF elapsed >= duration THEN <<1, 1>> ELSE Fraction(elapsed, duration)

\* 1 - Math.pow(1 - progress, 3)
EaseMissingComplement(p) ==
  <<(p[2] - p[1]) * (p[2] - p[1]) * (p[2] - p[1]), p[2] * p[2] * p[2]>>
EaseProgress(p) ==
  <<p[2] * p[2] * p[2] - (p[2] - p[1]) * (p[2] - p[1]) * (p[2] - p[1]),
    p[2] * p[2] * p[2]>>

\* every body taken with the size of the Earth
PlanetSizeOne(planetId) == 1000

\* planet?.size || 1, in thousandths
PlanetSize(planetId) ==
  IF \E i \in DOMAIN PLANETS : PLANETS[i].id = planetId
  THEN PLANETS[CHOOSE i \in DOMAIN PLANETS : PLANETS[i].id = planetId].size
  ELSE 1000


\* the closure focusOnPlanet builds: the flight's constants
NewFlight(planetId) ==
  LET coords == planetData.data[planetId]
      targetPosition ==
        Fix(Vec(Times(coords[1], SCALE_FACTOR), Times(coords[2], SCALE_FACTOR),
                Times(coords[3], SCALE_FACTOR)))
      planetSize ==
        (PlanetSize(planetId) * SIZE_SCALE_MILLI * Resolution) \div 1000000
      distance == planetSize * 3
      offset == Vec(distance, distance \div 2, distance)
  IN [controls |-> controlsRef,
      startPosition |-> cameras[controlsRef].position,
      startTarget |-> cameras[controlsRef].target,
      cameraTargetPosition |-> VAdd(targetPosition, offset),
      targetPosition |-> targetPosition,
      startTime |-> now]

\* what one run of animateCamera writes to the flight's camera.  With no
\* pointer input pending, controls.update() leaves position and target alone.
FlightCamera(f) ==
  LET easeProgress == EaseProgress(Progress(now - f.startTime))
  IN [position |-> lerpVectors(f.startPosition, f.cameraTargetPosition,
                               easeProgress),
      target |-> lerpVectors(f.startTarget, f.targetPosition, easeProgress)]

\* an animateCamera that would ask for another frame whatever the progress
FlightNeverStops(f) == TRUE

\* progress < 1: animateCamera asks for another frame
FlightContinues(f) ==
  LET progress == Progress(now - f.startTime) IN progress[1] < progress[2]

AnimateCallback(scene) == [kind |-> "animate", id |-> scene]
FlightCallback(i) == [kind |-> "flight", id |-> i]


\* the cameras still referenced: the current scene's, and those of the
\* controls that a scheduled animateCamera closure holds
Referenced(cams, callbacks, current) ==
  LET held == {flights[callbacks[i].id].controls :
                 i \in {j \in DOMAIN callbacks : callbacks[j].kind = "flight"}}
  IN [s \in (held \cup {current}) \cap DOMAIN cams |-> cams[s]]

(***************************************************************************)
(* The pixel arithmetic of animate on a projected vector.  Pixels are held *)
(* in steps of 1 / (2 * NdcScale): vector.x * 0.5 is then vector.x steps,  *)
(* and 0.5 is NdcScale steps.                                              *)
(***************************************************************************)
\* (vector.x * 0.5 + 0.5) * window.innerWidth
ScreenX(vectorX, innerWidth) == Times(Plus(vectorX, NdcScale), innerWidth)

\* (-vector.y * 0.5 + 0.5) * window.innerHeight
ScreenYUnflipped(vectorY, innerHeight) ==
  Times(Plus(vectorY, NdcScale), innerHeight)
ScreenY(vectorY, innerHeight) ==
  Times(Plus(Minus(0, vectorY), NdcScale), innerHeight)

\* no vector taken up yet
NoProjection ==
  [vector |-> <<0, 0>>, innerWidth |-> 0, innerHeight |-> 0, position |-> <<>>]

ProjectionInputs ==
  {[vector |-> v, innerWidth |-> w[1], innerHeight |-> w[2], position |-> <<>>] :
     v \in Vectors, w \in Windows}

(***************************************************************************)
(* Initial state: the component has mounted.  The first pass of the        *)
(* effects has asked for the coordinates of the current time (timestamp is *)
(* still null, controlsRef was still null, so no snapshot was taken) and   *)
(* has built the first scene with the default camera; animate has run once.*)
(***************************************************************************)
InitComponent ==
  /\ now = 0
  /\ timestamp = Null
  /\ issued = 1
  /\ inflight = {[seq |-> 1, ts |-> "T1"]}
  /\ planetData = NullObject
  /\ cameraState = NullObject
  /\ loading = TRUE
  /\ error = Null
  /\ focusedPlanet = Null
  /\ controlsRef = 1
  /\ cameras = (1 :> DefaultCamera)
  /\ meshPos = MeshPositions(NullObject)
  /\ cubePos = CubeStart
  /\ rotationX = MeshRotations(NullObject)
  /\ distances \in RankedOutcomes(CubeStart, MeshPositions(NullObject),
                                  DefaultCamera)
  /\ planetPositions = NewPlanetPositions(distances)
  /\ flights = <<>>
  /\ queue = <<AnimateCallback(1)>>
  /\ running = <<>>
  /\ unmounted = FALSE

Init ==
  /\ InitComponent
  /\ projection = NoProjection

(***************************************************************************)
(* The scene effect, re-run because planetData or cameraState changed:     *)
(* cleanup of the standing scene (cancelAnimationFrame of its animate),    *)
(* then a new scene, camera, controls and cube, and a first animate().     *)
(***************************************************************************)
\* a scene effect whose cleanup would leave the standing scene's animate
\* registered
SceneEffectKeepsLoop(pd, cs) ==
  /\ controlsRef' = controlsRef + 1
  /\ cameras' = Referenced(cameras @@ (controlsRef + 1 :> RestoreCamera(cs)),
                           queue, controlsRef + 1)
  /\ meshPos' = MeshPositions(pd)
  /\ cubePos' = CubeStart
  /\ queue' = Append(queue, AnimateCallback(controlsRef + 1))
  /\ rotationX' = MeshRotations(pd)
  /\ distances' \in RankedOutcomes(CubeStart, MeshPositions(pd),
                                   RestoreCamera(cs))
  /\ planetPositions' = NewPlanetPositions(distances')

SceneEffect(pd, cs) ==
  LET Survives(c) == c # AnimateCallback(controlsRef)
  IN /\ controlsRef' = controlsRef + 1
     /\ cameras' = Referenced(cameras @@ (controlsRef + 1 :> RestoreCamera(cs)),
                              queue, controlsRef + 1)
     /\ meshPos' = MeshPositions(pd)
     /\ cubePos' = CubeStart
     /\ queue' = Append(SelectSeq(queue, Survives),
                        AnimateCallback(controlsRef + 1))
     /\ rotationX' = MeshRotations(pd)
     /\ distances' \in RankedOutcomes(CubeStart, MeshPositions(pd),
                                      RestoreCamera(cs))
     /\ planetPositions' = NewPlanetPositions(distances')

\* the fetch effect up to its await, and the scene effect its setCameraState
\* sets off
FetchPlanetData(ts) ==
  LET snapshot == [position |-> cameras[controlsRef].position,
                   target |-> cameras[controlsRef].target]
  IN /\ running = <<>>
     /\ issued < MaxRequests
     /\ timestamp' = ts
     /\ cameraState' = snapshot
     /\ loading' = TRUE
     /\ issued' = issued + 1
     /\ inflight' = inflight \cup {[seq |-> issued + 1, ts |-> ts]}
     /\ SceneEffect(planetData, snapshot)
     /\ UNCHANGED <<now, planetData, error, focusedPlanet, flights, running,
                    projection, unmounted>>

\* The re-render after the mount effect's setTimestamp(new Date()).  React
\* runs it right after the first pass of the effects, before the browser
\* delivers a frame, an input event or a response: every other action waits
\* for it.  Mounted: that re-render has run and the component is still there
\* to take input, responses and effects.
MountTimestamp ==
  /\ timestamp = Null
  /\ FetchPlanetData("T1")

Mounted == timestamp # Null /\ ~unmounted

\* the time selector's onChange
SetTimestamp(ts) ==
  /\ Mounted
  /\ ts # timestamp
  /\ FetchPlanetData(ts)

\* a try branch that would also reset the error on success
ResponseArrivesClearsError(r) ==
  LET data == [ts |-> r.ts, data |-> DataFor(r.ts)]
  IN /\ Mounted
     /\ running = <<>>
     /\ r \in inflight
     /\ inflight' = inflight \ {r}
     /\ planetData' = data
     /\ loading' = FALSE
     /\ error' = Null
     /\ SceneEffect(data, cameraState)
     /\ UNCHANGED <<now, timestamp, issued, cameraState, focusedPlanet,
                    flights, running, projection, unmounted>>

\* the fetch resolves: setPlanetData, setLoading(false), and the scene effect
ResponseArrives(r) ==
  LET data == [ts |-> r.ts, data |-> DataFor(r.ts)]
  IN /\ Mounted
     /\ running = <<>>
     /\ r \in inflight
     /\ inflight' = inflight \ {r}
     /\ planetData' = data
     /\ loading' = FALSE
     /\ SceneEffect(data, cameraState)
     /\ UNCHANGED <<now, timestamp, issued, cameraState, error, focusedPlanet,
                    flights, running, projection, unmounted>>

\* a catch branch that would also drop the coordinate set
FetchFailsDropsData(r) ==
  /\ Mounted
  /\ running = <<>>
  /\ r \in inflight
  /\ inflight' = inflight \ {r}
  /\ error' = "Failed to fetch planet data"
  /\ loading' = FALSE
  /\ planetData' = NullObject
  /\ SceneEffect(NullObject, cameraState)
  /\ UNCHANGED <<now, timestamp, issued, cameraState, focusedPlanet, flights,
                 running, projection, unmounted>>

\* the fetch rejects: the catch branch
FetchFails(r) ==
  /\ Mounted
  /\ running = <<>>
  /\ r \in inflight
  /\ inflight' = inflight \ {r}
  /\ error' = "Failed to fetch planet data"
  /\ loading' = FALSE
  /\ UNCHANGED <<now, timestamp, issued, planetData, cameraState,
                 focusedPlanet, distances, planetPositions, controlsRef,
                 cameras, meshPos, rotationX, cubePos, flights, queue, running,
                 projection, unmounted>>

\* a focus whose animateCamera would be run ahead of the callbacks already
\* registered
FocusOnPlanetAhead(planetId) ==
  /\ Mounted
  /\ running = <<>>
  /\ Len(flights) < MaxFocus
  /\ IF planetData = NullObject \/ planetId \notin DOMAIN planetData.data
     THEN UNCHANGED <<flights, cameras, queue, focusedPlanet>>
     ELSE LET f == NewFlight(planetId)
          IN /\ flights' = Append(flights, f)
             /\ cameras' = [cameras EXCEPT ![f.controls] = FlightCamera(f)]
             /\ queue' = IF FlightContinues(f)
                         THEN <<FlightCallback(Len(flights) + 1)>> \o queue
                         ELSE queue
             /\ focusedPlanet' = planetId
  /\ UNCHANGED <<now, timestamp, issued, inflight, planetData, cameraState,
                 loading, error, distances, planetPositions, controlsRef,
                 meshPos, rotationX, cubePos, running, projection, unmounted>>

\* a click on a label: focusOnPlanet(planetId), with its first animateCamera()
FocusOnPlanet(planetId) ==
  /\ Mounted
  /\ running = <<>>
  /\ Len(flights) < MaxFocus
  /\ IF planetData = NullObject \/ planetId \notin DOMAIN planetData.data
     THEN UNCHANGED <<flights, cameras, queue, focusedPlanet>>
     ELSE LET f == NewFlight(planetId)
          IN /\ flights' = Append(flights, f)
             /\ cameras' = [cameras EXCEPT ![f.controls] = FlightCamera(f)]
             /\ queue' = IF FlightContinues(f)
                         THEN Append(queue, FlightCallback(Len(flights) + 1))
                         ELSE queue
             /\ focusedPlanet' = planetId
  /\ UNCHANGED <<now, timestamp, issued, inflight, planetData, cameraState,
                 loading, error, distances, planetPositions, controlsRef,
                 meshPos, rotationX, cubePos, running, projection, unmounted>>

\* the user drags the cube (DragControls)
DragCube(p) ==
  /\ Mounted
  /\ running = <<>>
  /\ cubePos # Fix(p)
  /\ cubePos' = Fix(p)
  /\ UNCHANGED <<now, timestamp, issued, inflight, planetData, cameraState,
                 loading, error, focusedPlanet, distances, planetPositions,
                 controlsRef, cameras, meshPos, rotationX, flights, queue,
                 running, projection, unmounted>>

\* the user orbits the camera (OrbitControls on the current scene)
UserOrbit(v) ==
  /\ Mounted
  /\ running = <<>>
  /\ cameras[controlsRef].position # Fix(v)
  /\ cameras' = [cameras EXCEPT ![controlsRef].position = Fix(v)]
  /\ UNCHANGED <<now, timestamp, issued, inflight, planetData, cameraState,
                 loading, error, focusedPlanet, distances, planetPositions,
                 controlsRef, meshPos, rotationX, cubePos, flights, queue,
                 running, projection, unmounted>>

\* React unmounts the component: the cleanup of the scene effect, with its
\* cancelAnimationFrame(animationFrameId).  The fetch effect has no cleanup,
\* and nothing takes back what focusOnPlanet registered.
Unmount ==
  LET Survives(c) == c # AnimateCallback(controlsRef)
  IN /\ Mounted
     /\ running = <<>>
     /\ unmounted' = TRUE
     /\ queue' = SelectSeq(queue, Survives)
     /\ UNCHANGED <<now, timestamp, issued, inflight, planetData, cameraState,
                    loading, error, focusedPlanet, distances, planetPositions,
                    controlsRef, cameras, meshPos, rotationX, cubePos, flights,
                    running, projection>>

\* a fetch settles after the unmount: the setters of an unmounted component
\* change nothing and no effect runs
SettleUnmounted(r) ==
  /\ unmounted
  /\ running = <<>>
  /\ r \in inflight
  /\ inflight' = inflight \ {r}
  /\ UNCHANGED <<now, timestamp, issued, planetData, cameraState, loading,
                 error, focusedPlanet, distances, planetPositions, controlsRef,
                 cameras, meshPos, rotationX, cubePos, flights, queue, running,
                 projection, unmounted>>

\* the wall clock moves; it is not monotonic
ClockMoves(dt) ==
  /\ timestamp # Null
  /\ running = <<>>
  /\ now + dt >= 0
  /\ now + dt <= MaxClock
  /\ now' = now + dt
  /\ UNCHANGED <<timestamp, issued, inflight, planetData, cameraState, loading,
                 error, focusedPlanet, distances, planetPositions, controlsRef,
                 cameras, meshPos, rotationX, cubePos, flights, queue, running,
                 projection, unmounted>>

\* the browser starts a frame: it takes the callbacks registered so far
BeginFrame ==
  /\ timestamp # Null
  /\ running = <<>>
  /\ queue # <<>>
  /\ running' = queue
  /\ queue' = <<>>
  /\ UNCHANGED <<now, timestamp, issued, inflight, planetData, cameraState,
                 loading, error, focusedPlanet, distances, planetPositions,
                 controlsRef, cameras, meshPos, rotationX, cubePos, flights,
                 projection, unmounted>>

\* an animate that would put the cube back where the scene was built with it
AnimateResetsCube ==
  /\ running # <<>>
  /\ Head(running).kind = "animate"
  /\ running' = Tail(running)
  /\ queue' = Append(queue, Head(running))
  /\ cubePos' = CubeStart
  /\ distances' \in RankedOutcomes(cubePos', meshPos, cameras[controlsRef])
  /\ planetPositions' = NewPlanetPositions(distances')
  /\ UNCHANGED <<now, timestamp, issued, inflight, planetData, cameraState,
                 loading, error, focusedPlanet, controlsRef, cameras, meshPos,
                 rotationX, flights, projection, unmounted>>

\* The frame runs animate: re-register, controls.update(), render, rank,
\* publish.  With no pointer input pending controls.update() leaves the camera
\* alone.  The spin turns rotation.y of the meshes, which is not held here;
\* rotation.x, the positions and the cube are not written.
Animate ==
  /\ running # <<>>
  /\ Head(running).kind = "animate"
  /\ running' = Tail(running)
  /\ queue' = Append(queue, Head(running))
  /\ distances' \in RankedOutcomes(cubePos, meshPos, cameras[controlsRef])
  /\ planetPositions' = NewPlanetPositions(distances')
  /\ UNCHANGED <<now, timestamp, issued, inflight, planetData, cameraState,
                 loading, error, focusedPlanet, controlsRef, cameras, meshPos,
                 rotationX, cubePos, flights, projection, unmounted>>

\* the frame runs a flight's animateCamera
AnimateCamera ==
  /\ running # <<>>
  /\ Head(running).kind = "flight"
  /\ LET f == flights[Head(running).id]
     IN /\ queue' = IF FlightContinues(f) THEN Append(queue, Head(running))
                    ELSE queue
        /\ cameras' = Referenced([cameras EXCEPT ![f.controls] = FlightCamera(f)],
                                 queue' \o Tail(running), controlsRef)
  /\ running' = Tail(running)
  /\ UNCHANGED <<now, timestamp, issued, inflight, planetData, cameraState,
                 loading, error, focusedPlanet, distances, planetPositions,
                 controlsRef, meshPos, rotationX, cubePos, flights,
                 projection, unmounted>>

Next ==
  \/ MountTimestamp
  \/ \E ts \in Timestamps : SetTimestamp(ts)
  \/ \E r \in inflight : ResponseArrives(r)
  \/ \E r \in inflight : FetchFails(r)
  \/ \E planetId \in FocusArgs : FocusOnPlanet(planetId)
  \/ \E p \in CubePlaces : DragCube(p)
  \/ \E v \in OrbitViews : UserOrbit(v)
  \/ \E dt \in ClockSteps : ClockMoves(dt)
  \/ BeginFrame
  \/ Animate
  \/ AnimateCamera
  \/ Unmount
  \/ \E r \in inflight : SettleUnmounted(r)

Spec == Init /\ [][Next]_vars

(***************************************************************************)
(* Projections of Spec, small enough to explore in full.  Every step       *)
(* of either is a step of Next.  The ranking reads only the cube and the   *)
(* meshes, the flights only the clock, the cameras and planetData.         *)
(***************************************************************************)
\* data refresh and ranking: the user never clicks a label
NextRefresh ==
  \/ MountTimestamp
  \/ \E ts \in Timestamps : SetTimestamp(ts)
  \/ \E r \in inflight : ResponseArrives(r)
  \/ \E r \in inflight : FetchFails(r)
  \/ \E p \in CubePlaces : DragCube(p)
  \/ \E v \in OrbitViews : UserOrbit(v)
  \/ BeginFrame
  \/ Animate

SpecRefresh == Init /\ [][NextRefresh]_vars

\* camera flights: the time selector and the cube are left alone, no fetch
\* fails, and the camera is moved by flights only
NextFlight ==
  \/ MountTimestamp
  \/ \E r \in inflight : ResponseArrives(r)
  \/ \E planetId \in FocusIds : FocusOnPlanet(planetId)
  \/ \E dt \in ClockSteps : ClockMoves(dt)
  \/ BeginFrame
  \/ Animate
  \/ AnimateCamera

SpecFlight == Init /\ [][NextFlight]_vars

\* focus commands on every coordinate set, with the user orbiting the
\* camera: the clock stands still, so no flight gets past its first instant
NextFocus ==
  \/ MountTimestamp
  \/ \E ts \in Timestamps : SetTimestamp(ts)
  \/ \E r \in inflight : ResponseArrives(r)
  \/ \E planetId \in FocusArgs : FocusOnPlanet(planetId)
  \/ \E v \in OrbitViews : UserOrbit(v)
  \/ BeginFrame
  \/ Animate
  \/ AnimateCamera

SpecFocus == Init /\ [][NextFocus]_vars

\* teardown: scenes are rebuilt by requests and responses and the component
\* is unmounted, with flights under way; the clock stands still
NextTeardown ==
  \/ MountTimestamp
  \/ \E ts \in Timestamps : SetTimestamp(ts)
  \/ \E r \in inflight : ResponseArrives(r)
  \/ \E planetId \in FocusIds : FocusOnPlanet(planetId)
  \/ BeginFrame
  \/ Animate
  \/ AnimateCamera
  \/ Unmount
  \/ \E r \in inflight : SettleUnmounted(r)

SpecTeardown == Init /\ [][NextTeardown]_vars

(***************************************************************************)
(* Flights under a clock that only advances and frames that keep coming.   *)
(* The browser delivers a frame whenever callbacks are registered and runs *)
(* every callback of the frame it has begun (weak fairness); the clock     *)
(* advances again and again between frames, where alone it is read (strong *)
(* fairness: a frame in progress disables the step).  The clock is cut off *)
(* at MaxClock, so a focus comes early enough for its flight to end by     *)
(* then.                                                                   *)
(***************************************************************************)
\* the browser runs the next callback of the frame: a step of Animate or of
\* AnimateCamera, told by the frame's list alone
FrameContinues == running # <<>> /\ running' = Tail(running)

ClockAdvances == \E dt \in {d \in ClockSteps : d > 0} : ClockMoves(dt)

NextLive ==
  \/ MountTimestamp
  \/ \E r \in inflight : ResponseArrives(r)
  \/ \E planetId \in FocusIds :
       now + duration <= MaxClock /\ FocusOnPlanet(planetId)
  \/ ClockAdvances
  \/ BeginFrame
  \/ Animate
  \/ AnimateCamera

SpecLive ==
  /\ Init
  /\ [][NextLive]_vars
  /\ WF_vars(BeginFrame)
  /\ WF_running(FrameContinues)
  /\ SF_vars(ClockAdvances)

(***************************************************************************)
(* The pixel arithmetic taken by itself: a projected vector and a window   *)
(* size are drawn, and the position is computed from them as animate does. *)
(* In the specifications above animate's label positions are held by their *)
(* arguments (LabelPosition) and this arithmetic is not run.               *)
(***************************************************************************)
InitProjection ==
  /\ InitComponent
  /\ projection \in ProjectionInputs

\* const x = ...; const y = ...; const position = { x, y }
ProjectVector ==
  /\ projection.position = <<>>
  /\ projection' =
       [projection EXCEPT
          !.position = <<ScreenX(projection.vector[1], projection.innerWidth),
                         ScreenY(projection.vector[2], projection.innerHeight)>>]
  /\ UNCHANGED <<now, timestamp, issued, inflight, planetData, cameraState,
                 loading, error, focusedPlanet, distances, planetPositions,
                 controlsRef, cameras, meshPos, rotationX, cubePos, flights,
                 queue, running, unmounted>>

NextProjection == ProjectVector

SpecProjection == InitProjection /\ [][NextProjection]_vars


(***************************************************************************)
(* Vocabulary of the claims                                                *)
(***************************************************************************)
\* the flights that are Flying: their animateCamera is scheduled
PendingFlights ==
  LET callbacks == queue \o running
  IN {callbacks[i].id :
        i \in {j \in DOMAIN callbacks : callbacks[j].kind = "flight"}}

\* this step is a frame's run of flight i's animateCamera
TickStep(i) ==
  /\ running # <<>>
  /\ Head(running) = FlightCallback(i)
  /\ running' = Tail(running)

\* this step is a focus command that starts a flight
FocusStep == Len(flights') > Len(flights)

\* this step is a scene rebuild on the arrival of a coordinate set
RefreshStep == planetData' # planetData

\* x lies between a and b, in every component
Between(a, x, b) ==
  \A k \in 1..3 : (a[k] <= x[k] /\ x[k] <= b[k]) \/ (b[k] <= x[k] /\ x[k] <= a[k])

\* position of an id in PLANETS
CatalogIndex(id) == CHOOSE i \in DOMAIN PLANETS : PLANETS[i].id = id

\* the catalog ids in lexicographic order
LexOrder ==
  <<"earth", "jupiter", "mars", "mercury", "neptune", "saturn", "sun",
    "uranus", "venus">>

LexIndex(id) == CHOOSE i \in DOMAIN LexOrder : LexOrder[i] = id

RankedIds == {distances[i].id : i \in DOMAIN distances}

\* the bodies the accepted coordinate set holds a coordinate for
KnownBodies ==
  IF planetData = NullObject THEN {} ELSE PlanetIds \cap DOMAIN planetData.data

\* the received coordinate of a known body, in scene units
ScaledCoordinate(id) ==
  Fix(Vec(Times(planetData.data[id][1], SCALE_FACTOR),
          Times(planetData.data[id][2], SCALE_FACTOR),
          Times(planetData.data[id][3], SCALE_FACTOR)))

\* the documented fallback position
Fallback == Fix(Vec(10, 0, 0))

\* this step tears the scene down and builds a new one
RebuildStep == controlsRef' # controlsRef

\* this step surfaces the error message
FailStep == error' # error

\* the label positions of the bodies at these mesh positions, seen by this
\* camera
LabelsOf(mesh, camera) ==
  [id \in PlanetIds |-> LabelPosition(mesh[id], camera)]

\* this step is a run of animate in a frame
RankStep ==
  /\ running # <<>>
  /\ Head(running).kind = "animate"
  /\ running' = Tail(running)

\* n hundredths of an AU is the distance whose square is distSq (in squared
\* steps of the scene grid), rounded to the nearest hundredth, a half going up
RoundsTo(distSq, n) ==
  LET k == 100 \div SCALE_FACTOR
      r == Resolution
  IN /\ n >= 0
     /\ 4 * k * k * distSq < (2 * n + 1) * (2 * n + 1) * r * r
     /\ n > 0 => (2 * n - 1) * (2 * n - 1) * r * r <= 4 * k * k * distSq

\* the render radius of a catalog body, size * SIZE_SCALE, in steps of the
\* scene grid
RenderRadius(id) ==
  (PLANETS[CatalogIndex(id)].size * SIZE_SCALE_MILLI * Resolution) \div 1000000

\* end position minus end target of a flight
FlightOffset(f) ==
  <<Minus(f.cameraTargetPosition[1], f.targetPosition[1]),
    Minus(f.cameraTargetPosition[2], f.targetPosition[2]),
    Minus(f.cameraTargetPosition[3], f.targetPosition[3])>>

\* the flights started on the scene that stands, in the order of their focus
\* commands
FlightsOnScene == {i \in DOMAIN flights : flights[i].controls = controlsRef}

\* the end state of a flight
EndState(f) == [position |-> f.cameraTargetPosition, target |-> f.targetPosition]

\* the render loops scheduled: the animate callbacks registered for the
\* next frame or waiting in the running one, by the scene they belong to
ScheduledLoops ==
  LET callbacks == queue \o running
  IN {i \in DOMAIN callbacks : callbacks[i].kind = "animate"}

LoopScene(i) == (queue \o running)[i].id

\* this step publishes a ranked list or label positions
PublishStep == distances' # distances \/ planetPositions' # planetPositions

\* this step ends a frame
FrameEnds == running # <<>> /\ running' = <<>>

(***************************************************************************)
(* C1: at most one camera flight is active at a time; a focus command      *)
(* issued while a flight is Flying discards the earlier flight.            *)
(* The code never cancels the earlier animateCamera: violated.             *)
(***************************************************************************)
C1_AtMostOneFlight == Cardinality(PendingFlights) <= 1

(***************************************************************************)
(* C2: a data refresh never resets the viewpoint: the camera of the scene  *)
(* rebuilt on a response equals the active camera just before the dataset  *)
(* swap.  The code restores the snapshot taken when the request was        *)
(* issued: violated.                                                       *)
(***************************************************************************)
C2_RefreshKeepsViewpoint ==
  [][RefreshStep => cameras'[controlsRef'] = cameras[controlsRef]]_vars

(***************************************************************************)
(* C3: a flight that is Flying when the scene is rebuilt goes on moving    *)
(* the active camera.  The closure keeps the controls of the scene it was  *)
(* started on: violated.                                                   *)
(***************************************************************************)
C3_FlightOnActiveCamera ==
  \A i \in PendingFlights : flights[i].controls = controlsRef

(***************************************************************************)
(* C4: a response to an older request never overwrites the coordinate set: *)
(* once every response has arrived (and none failed), the coordinate set   *)
(* is that of the latest requested timestamp.  The code accepts every      *)
(* response: violated.                                                     *)
(***************************************************************************)
C4_LatestRequestWins ==
  (Mounted /\ inflight = {} /\ error = Null) => planetData.ts = timestamp

(***************************************************************************)
(* C5: two ranked bodies with equal distance appear in ascending           *)
(* lexicographic order of their ids.  The stable sort leaves ties in       *)
(* PLANETS order: violated.                                                *)
(***************************************************************************)
C5_TiesInLexOrder ==
  \A i \in 1..(Len(distances) - 1) :
    distances[i].distance = distances[i + 1].distance
      => LexIndex(distances[i].id) < LexIndex(distances[i + 1].id)

(***************************************************************************)
(* C6: the published ranked list is ascending by distance, for any         *)
(* reference point and any coordinate set.  A coordinate that is not a     *)
(* number reaches the ranking as a NaN distance (C15), which is in order   *)
(* with nothing: violated.                                                 *)
(***************************************************************************)
C6_RankedAscending ==
  \A i \in 1..(Len(distances) - 1) :
    LessEq(distances[i].distance, distances[i + 1].distance)

(***************************************************************************)
(* C7: the ranked list covers exactly the bodies with a known position,    *)
(* each once; a body without a received coordinate is not ranked.  The     *)
(* code ranks every PLANETS element, at the fallback position if need be:  *)
(* violated.                                                               *)
(***************************************************************************)
C7_RanksKnownBodiesOnly ==
  /\ RankedIds = KnownBodies
  /\ Len(distances) = Cardinality(RankedIds)

(***************************************************************************)
(* C8: a focus command captures the flight's start from the camera's state *)
(* at that instant and leaves the camera where it was (no jump); the       *)
(* flight's later ticks interpolate from that captured start.              *)
(***************************************************************************)
C8_NoJumpOnFocus ==
  [][/\ FocusStep =>
          LET f == flights'[Len(flights')]
          IN /\ f.startPosition = cameras[controlsRef].position
             /\ f.startTarget = cameras[controlsRef].target
             /\ cameras'[controlsRef] = cameras[controlsRef]
     /\ \A i \in DOMAIN flights :
          (TickStep(i) /\ flights[i].controls \in DOMAIN cameras') =>
            LET f == flights[i]
                c == cameras'[f.controls]
                e == EaseProgress(Progress(now - f.startTime))
            IN /\ c.position = lerpVectors(f.startPosition,
                                           f.cameraTargetPosition, e)
               /\ c.target = lerpVectors(f.startTarget, f.targetPosition, e)]_vars

\* right after a focus command that interrupted a flight half way: the new
\* flight starts where the camera is, which is neither end of the old one
C8_Witness ==
  \E i, j \in PendingFlights :
    /\ i < j
    /\ flights[i].controls = flights[j].controls
    /\ flights[j].startTime = now
    /\ flights[j].startPosition = cameras[flights[j].controls].position
    /\ flights[j].startPosition # flights[i].startPosition
    /\ flights[j].startPosition # flights[i].cameraTargetPosition


C10_CameraOnSegment ==
  [][\A i \in DOMAIN flights :
       (TickStep(i) /\ flights[i].controls \in DOMAIN cameras') =>
         LET f == flights[i]
             c == cameras'[f.controls]
         IN /\ Between(f.startPosition, c.position, f.cameraTargetPosition)
            /\ Between(f.startTarget, c.target, f.targetPosition)]_vars

(***************************************************************************)
(* C11: a focus call with an id outside the catalog is a no-op: no flight  *)
(* starts and the focused-body indicator keeps its value, whatever the     *)
(* coordinate set holds.  focusOnPlanet looks the id up in the coordinate  *)
(* set only, and flies with size 1 when PLANETS has no such body:          *)
(* violated.                                                               *)
(***************************************************************************)
C11_UnknownFocusIsNoOp ==
  [][(FocusStep \/ focusedPlanet' # focusedPlanet)
       => focusedPlanet' \in PlanetIds]_vars

(***************************************************************************)
(* C12: a focus request on a catalog body starts a flight whose end        *)
(* look-at target is the body's scene position, the sun's included.  The   *)
(* target is computed from the coordinate, the sun's mesh is never         *)
(* positioned: violated.                                                   *)
(***************************************************************************)
C12_FlightTargetsScenePosition ==
  [][(FocusStep /\ focusedPlanet' \in PlanetIds)
       => flights'[Len(flights')].targetPosition = meshPos[focusedPlanet']]_vars

(***************************************************************************)
(* C13: for every body with a coordinate in the accepted set, the sun      *)
(* included, the scene position is the coordinate times SCALE_FACTOR.      *)
(* The sun's mesh stays at the origin: violated.                           *)
(***************************************************************************)
C13_ScenePositionIsScaledCoordinate ==
  \A id \in KnownBodies : meshPos[id] = ScaledCoordinate(id)

(***************************************************************************)
(* C14: every catalog body without an entry in the accepted set, also      *)
(* before any response, is at the fallback (10,0,0).  The sun without an   *)
(* entry is at the origin: violated.                                       *)
(***************************************************************************)
C14_MissingBodyAtFallback ==
  \A id \in PlanetIds \ KnownBodies : meshPos[id] = Fallback

(***************************************************************************)
(* C15: a coordinate with a non-finite component is treated as missing:    *)
(* the body is at the fallback, and no non-finite value reaches the scene  *)
(* positions or the ranked distances.  The code multiplies whatever the    *)
(* entry holds: violated.                                                  *)
(***************************************************************************)
C15_NonFiniteRejected ==
  /\ \A id \in KnownBodies :
       ~IsFinite(planetData.data[id]) => meshPos[id] = Fallback
  /\ \A id \in PlanetIds : IsFinite(meshPos[id])
  /\ \A i \in DOMAIN distances : ~IsNaN(distances[i].distance)

(***************************************************************************)
(* C16: the step on which a failed fetch surfaces its message leaves the   *)
(* accepted coordinate set, the scene positions, the cube, the cameras and *)
(* the scheduled frame loop as they were.                                  *)
(***************************************************************************)
C16_FetchFailureKeepsState ==
  [][FailStep =>
       /\ error' = "Failed to fetch planet data"
       /\ UNCHANGED <<planetData, meshPos, cubePos, cameras, controlsRef,
                      queue, running, distances, planetPositions>>]_vars

\* a fetch has failed with a coordinate set accepted before: the set, the
\* dragged cube and the frame loop of the standing scene are still there
C16_Witness ==
  /\ error # Null
  /\ inflight = {}
  /\ ~loading
  /\ planetData # NullObject
  /\ meshPos = MeshPositions(planetData)
  /\ cubePos # CubeStart
  /\ AnimateCallback(controlsRef) \in {queue[i] : i \in DOMAIN queue}

(***************************************************************************)
(* C17: the reference point of the distances changes only by the user's    *)
(* drag: every change of it puts it where the user dragged it.  A scene    *)
(* rebuild makes a new cube at (20,20,20): violated.                       *)
(***************************************************************************)
C17_ReferencePointFollowsDragOnly ==
  [][cubePos' # cubePos => \E p \in CubePlaces : cubePos' = Fix(p)]_vars

(***************************************************************************)
(* C18: while a flight is Flying, only that flight's ticks change the      *)
(* camera it moves.  OrbitControls stays enabled and earlier flights keep  *)
(* ticking: violated.                                                      *)
(***************************************************************************)
C18_FlightOwnsCamera ==
  [][\A i \in PendingFlights :
       (/\ i \in PendingFlights'
        /\ flights[i].controls \in DOMAIN cameras'
        /\ cameras'[flights[i].controls] # cameras[flights[i].controls])
         => TickStep(i)]_vars

(***************************************************************************)
(* C19: in a frame the flight tick comes before the projection, so the     *)
(* label positions a frame publishes are those of the camera as the frame  *)
(* leaves it.  animate is registered before animateCamera and runs first:  *)
(* violated.                                                               *)
(***************************************************************************)
C19_LabelsFromThisFramesCamera ==
  [][FrameEnds =>
       planetPositions' = LabelsOf(meshPos', cameras'[controlsRef'])]_vars

(***************************************************************************)
(* C20: the scene is rebuilt exactly when coordinate data arrives: every   *)
(* rebuild is the arrival of a response, and every arrival rebuilds once.  *)
(* The snapshot taken when a request is issued rebuilds too: violated.     *)
(***************************************************************************)
C20_RebuildOnlyOnData ==
  [][/\ RebuildStep => Cardinality(inflight') < Cardinality(inflight)
     /\ planetData' # planetData => controlsRef' = controlsRef + 1]_vars

C22_FrameLeavesPositions ==
  /\ [][(running # <<>> \/ running' # <<>>) =>
          (meshPos' = meshPos /\ cubePos' = cubePos)]_vars
  /\ [][meshPos' # meshPos => RebuildStep]_vars

\* a frame has ranked the loaded bodies around the dragged cube, and both are
\* where the rebuild and the drag left them
C22_Witness ==
  /\ planetData # NullObject
  /\ meshPos = MeshPositions(planetData)
  /\ cubePos \in {Fix(p) : p \in CubePlaces} \ {CubeStart}
  /\ running = <<>>
  /\ queue # <<>>
  /\ \A i \in DOMAIN distances :
       distances[i].distance = DistanceAU(cubePos, meshPos[distances[i].id])

(***************************************************************************)
(* C23: when a scene is built and no camera snapshot exists, the camera is *)
(* at (0, 50, 100) and looks at (0, 0, 0).  A snapshot is taken with every *)
(* request and never dropped, so the case is the scene of the mount.       *)
(***************************************************************************)
C23_DefaultCamera ==
  cameraState = NullObject =>
    /\ cameras[controlsRef].position = <<0, 50 * Resolution, 100 * Resolution>>
    /\ cameras[controlsRef].target = <<0, 0, 0>>

\* the scene of the mount: built, its animate registered, no snapshot yet
C23_Witness ==
  /\ cameraState = NullObject
  /\ controlsRef = 1
  /\ queue = <<AnimateCallback(1)>>

(***************************************************************************)
(* C25: every catalog body but the sun has rotation.x = 90 + 23 degrees    *)
(* plus its inclination, and an orbit ring turned 90 degrees more; for the *)
(* Earth that is 113 degrees exactly.  Angles in tenths of a degree.       *)
(* A body with no coordinate is placed by the fallback branch, which sets  *)
(* no rotation and makes no ring: violated.                                *)
(***************************************************************************)
C25_TiltOnEveryPlanet ==
  /\ \A i \in 2..Len(PLANETS) :
       LET tilt == 900 + 230 + PLANETS[i].inclination
       IN /\ rotationX[PLANETS[i].id].mesh = tilt
          /\ rotationX[PLANETS[i].id].orbit = <<tilt + 900>>
  /\ rotationX["earth"].mesh = 1130

(***************************************************************************)
(* C26: for a catalog body of render radius r = size * SIZE_SCALE, the     *)
(* flight's end position minus its end target is (1, 0.5, 1) times 3r.     *)
(* On the scene grid the half is cut to a whole step.                      *)
(***************************************************************************)
C26_OffsetIsThreeRadii ==
  [][(FocusStep /\ focusedPlanet' \in PlanetIds) =>
       LET offset == FlightOffset(flights'[Len(flights')])
           r == RenderRadius(focusedPlanet')
       IN /\ offset[1] = 3 * r
          /\ offset[3] = offset[1]
          /\ 2 * offset[2] <= offset[1]
          /\ offset[1] < 2 * offset[2] + 2]_vars

\* two bodies of different radius have been flown to, each with its own
\* offset
C26_Witness ==
  /\ Len(flights) = 2
  /\ focusedPlanet \in PlanetIds
  /\ FlightOffset(flights[2]) = <<3 * RenderRadius(focusedPlanet),
                                  (3 * RenderRadius(focusedPlanet)) \div 2,
                                  3 * RenderRadius(focusedPlanet)>>
  /\ FlightOffset(flights[1]) # FlightOffset(flights[2])

(***************************************************************************)
(* C24: a projected vector (ndcX, ndcY) and a window W x H give the pixel  *)
(* position ((ndcX * 0.5 + 0.5) * W, (-ndcY * 0.5 + 0.5) * H): the centre  *)
(* of the window for (0, 0), x growing to the right and y downward, and    *)
(* the same position for the same inputs.  Pixels in steps of              *)
(* 1 / (2 * NdcScale).                                                     *)
(***************************************************************************)
C24_PixelPosition ==
  projection.position # <<>> =>
    LET W == projection.innerWidth
        H == projection.innerHeight
        x == projection.position[1]
        y == projection.position[2]
    IN /\ x = projection.vector[1] * W + NdcScale * W
       /\ y = NdcScale * H - projection.vector[2] * H
       /\ projection.vector = <<0, 0>> => (x = NdcScale * W /\ y = NdcScale * H)
       /\ projection.vector = <<-NdcScale, NdcScale>> => (x = 0 /\ y = 0)
       /\ projection.vector = <<NdcScale, -NdcScale>> =>
            (x = 2 * NdcScale * W /\ y = 2 * NdcScale * H)

\* the position of a vector above and right of the centre has been computed:
\* right of the window's centre and above it
C24_Witness ==
  /\ projection.position # <<>>
  /\ projection.vector = <<1, 1>>
  /\ projection.innerWidth = 800
  /\ projection.position[1] > NdcScale * 800
  /\ projection.position[2] < NdcScale * projection.innerHeight

(***************************************************************************)
(* C27: only the most recent focus command survives.  When the flights     *)
(* started on the standing scene were started at non-decreasing clock      *)
(* readings and none of them is scheduled any more, the camera rests on    *)
(* the end position and end target of the last of them.                    *)
(***************************************************************************)
C27_LastFocusSurvives ==
  ( /\ FlightsOnScene # {}
    /\ FlightsOnScene \cap PendingFlights = {}
    /\ \A i, j \in FlightsOnScene :
         i < j => flights[i].startTime <= flights[j].startTime )
  => LET last == CHOOSE i \in FlightsOnScene : \A j \in FlightsOnScene : j <= i
     IN cameras[controlsRef] = EndState(flights[last])

\* a second flight to another place was started while the first was Flying;
\* both have stopped and the camera rests on the second one's end
C27_Witness ==
  /\ FlightsOnScene = {1, 2}
  /\ PendingFlights = {}
  /\ flights[1].startTime < flights[2].startTime
  /\ flights[2].startTime < flights[1].startTime + duration
  /\ EndState(flights[1]) # EndState(flights[2])
  /\ cameras[controlsRef] = EndState(flights[2])

(***************************************************************************)
(* C28: every started flight terminates.  With frames delivered and the    *)
(* clock advancing, a flight that is Flying stops being scheduled, and the *)
(* tick that ends it is the first one that reads the clock at startTime +  *)
(* 1000 ms or later: a tick ends the flight exactly when it reads such a   *)
(* clock, however many ticks came before.                                  *)
(***************************************************************************)
C28_FlightTerminates ==
  /\ \A i \in 1..MaxFocus : (i \in PendingFlights) ~> (i \notin PendingFlights)
  /\ [][\A i \in DOMAIN flights :
          TickStep(i) =>
            ((i \notin PendingFlights') <=>
               (now >= flights[i].startTime + duration))]_vars

\* a flight has ended on the tick that read the clock at startTime + 1000
\* exactly, after a tick midway
C28_Witness ==
  \E i \in DOMAIN flights :
    /\ i \notin PendingFlights
    /\ running = <<>>
    /\ now = flights[i].startTime + duration
    /\ duration > 500
    /\ cameras[flights[i].controls] = EndState(flights[i])

(***************************************************************************)
(* C29: a body strictly nearer to the reference point than another, by the *)
(* unrounded distance in the scene, comes before it in the frame's ranked  *)
(* list.  Stated for the frames in which every distance is a number.       *)
(* The list is sorted by the rounded distance, and bodies that round to    *)
(* the same hundredth stay in catalog order: violated.                     *)
(***************************************************************************)
C29_NearerRanksFirst ==
  [][((RankStep \/ RebuildStep)
        /\ \A i \in DOMAIN distances' : ~IsNaN(distances'[i].distance)) =>
       \A i, j \in DOMAIN distances' :
         DistSq(cubePos', meshPos'[distances'[i].id])
           < DistSq(cubePos', meshPos'[distances'[j].id])
         => i < j]_vars

(***************************************************************************)
(* C30: the published map from body id to screen position has exactly the  *)
(* ids of the published ranked list as keys, and each position is the one  *)
(* in that body's entry of the list: both come from the same frame.        *)
(***************************************************************************)
C30_PositionsMatchRanking ==
  /\ DOMAIN planetPositions = RankedIds
  /\ \A i \in DOMAIN distances :
       planetPositions[distances[i].id] = distances[i].position

\* a frame has run after the user turned the camera: list and map hold the
\* positions seen by the turned camera, not those of the frame before
C30_Witness ==
  /\ running = <<>>
  /\ cameras[controlsRef] # RestoreCamera(cameraState)
  /\ distances # <<>>
  /\ \A i \in DOMAIN distances :
       /\ distances[i].position =
            LabelPosition(meshPos[distances[i].id], cameras[controlsRef])
       /\ planetPositions[distances[i].id] = distances[i].position

(***************************************************************************)
(* C33: while at least one coordinate request is outstanding the loading   *)
(* indicator is true.  Every response and every failure sets it to false,  *)
(* whatever else is outstanding: violated.                                 *)
(***************************************************************************)
C33_LoadingWhileOutstanding == inflight # {} => loading = TRUE

(***************************************************************************)
(* C34: once a failed fetch has set the error message it stays set: no     *)
(* step changes it, a later successful fetch included.                     *)
(***************************************************************************)
C34_ErrorStaysSet == [][error # Null => error' = error]_vars

\* after the failure another request was issued (loading is true again) and
\* a coordinate set has arrived; the message is still there
C34_Witness ==
  /\ error = "Failed to fetch planet data"
  /\ loading = TRUE
  /\ planetData # NullObject
  /\ inflight # {}

(***************************************************************************)
(* C31: at most one render loop is scheduled at any time, and it is the    *)
(* one of the standing scene of a mounted component: a rebuild and the     *)
(* unmount cancel the torn-down scene's animate, which never runs or       *)
(* publishes again.                                                        *)
(***************************************************************************)
C31_OneRenderLoop ==
  /\ [](/\ Cardinality(ScheduledLoops) <= 1
        /\ \A i \in ScheduledLoops : LoopScene(i) = controlsRef /\ ~unmounted)
  /\ [][(RankStep => (Head(running).id = controlsRef /\ ~unmounted))
        /\ (PublishStep => (~unmounted' /\ (RankStep \/ RebuildStep)))]_vars

\* scenes were rebuilt, the component was unmounted, and a frame is running
\* after that (a flight was under way): no animate is in it or registered
C31_Witness ==
  /\ unmounted
  /\ controlsRef >= 3
  /\ running # <<>>
  /\ ScheduledLoops = {}

(***************************************************************************)
(* C32: after a scene is torn down, by a rebuild or by the unmount, no     *)
(* flight started on it runs again: every run of an animateCamera is on    *)
(* the standing scene of a mounted component.  Neither cleanup cancels the *)
(* frame animateCamera asked for: violated.                                *)
(***************************************************************************)
C32_NoFlightTickAfterTeardown ==
  [][\A i \in DOMAIN flights :
       TickStep(i) => (flights[i].controls = controlsRef /\ ~unmounted)]_vars
====
